---- MODULE Spec2Model ----
(***************************************************************************)
(* bcfg2-lint: the ErrorHandler (registry of error kinds, dispatch,        *)
(* counters, message rendering) and the CLI runner (two-phase plugin       *)
(* execution, report, exit code) of src/lib/Bcfg2/Server/Lint/__init__.py. *)
(*                                                                         *)
(* Strings the code inspects character by character (severity actions,     *)
(* messages) are sequences of one-character strings.  A logged text is a   *)
(* sequence of fragments: literal fragments of the code ("ERROR: ",        *)
(* "Unknown error ") and the characters of the message.                    *)
(***************************************************************************)
EXTENDS Integers, Sequences, FiniteSets, TLC

(***************************************************************************)
(* Bounds of the model.                                                    *)
(***************************************************************************)
\* dispatch calls made on one handler (stand-alone, or all plugins of a run)
MaxDispatch == 2
\* length of the --lint-plugins list
MaxPlugins == 2

\* Python's None, for a value that is otherwise a one-element tuple <<v>>
None == <<>>

(***************************************************************************)
(* Input alphabets.                                                        *)
(***************************************************************************)
\* error kinds plugins declare and dispatch
Kinds == {"dup-group", "stale-path"}

\* action strings of Errors() dicts and of the [errors] config section
ActError   == <<"e", "r", "r", "o", "r">>
ActWarning == <<"w", "a", "r", "n", "i", "n", "g">>
ActSilent  == <<"s", "i", "l", "e", "n", "t">>
ActEmpty   == <<>>
Actions == {ActError, ActWarning, ActSilent, ActEmpty}

\* dicts kind -> action
ErrorDicts == UNION {[S -> Actions] : S \in SUBSET Kinds}

EmptyDict == [k \in {} |-> ActEmpty]

\* messages plugins pass to LintError: "", "a", "a b", "a\nb", "ab a\n\nb"
Msgs == { <<>>,
          <<"a">>,
          <<"a", " ", "b">>,
          <<"a", "\n", "b">>,
          <<"a", "b", " ", "a", "\n", "\n", "b">> }

\* what get_termsize() can return: None, or <<width>> of the terminal
TermSizes == {None, <<0>>, <<4>>}

(***************************************************************************)
(* String helpers.                                                         *)
(***************************************************************************)
\* Python's s[:n] and s[n:], for n >= 0
Take(s, n) == [i \in 1..(IF n < Len(s) THEN n ELSE Len(s)) |-> s[i]]
Drop(s, n) == [i \in 1..(Len(s) - n) |-> s[i + n]]

\* Python's  sub in s
Contains(s, sub) ==
    \E i \in 1..(Len(s) - Len(sub) + 1) : Take(Drop(s, i - 1), Len(sub)) = sub

\* index of the first line break of s, 0 when there is none
FirstBreak(s) ==
    IF \E i \in 1..Len(s) : s[i] = "\n"
    THEN CHOOSE i \in 1..Len(s) : s[i] = "\n" /\ \A j \in 1..(i - 1) : s[j] # "\n"
    ELSE 0

\* str.splitlines(): the lines of s, without a last empty line
RECURSIVE splitlines(_)
splitlines(s) ==
    IF s = <<>> THEN <<>>
    ELSE LET i == FirstBreak(s) IN
         IF i = 0 THEN <<s>>
         ELSE <<Take(s, i - 1)>> \o splitlines(Drop(s, i))

\* str.lstrip() on a line of characters
RECURSIVE lstrip(_)
lstrip(s) ==
    IF s # <<>> /\ Head(s) = " " THEN lstrip(Tail(s)) ELSE s

\* ''.join(chunks)
RECURSIVE Join(_)
Join(chunks) ==
    IF chunks = <<>> THEN <<>> ELSE Head(chunks) \o Join(Tail(chunks))

\* chunk.strip() == ''
IsBlank(chunk) == \A i \in 1..Len(chunk) : chunk[i] = " "

(***************************************************************************)
(* textwrap.TextWrapper(initial_indent="  ", subsequent_indent="  ",       *)
(* width=w).wrap, as ErrorHandler.__init__ configures it.  The alphabet    *)
(* has no tab and no hyphen, so a chunk is a maximal run of blanks or of   *)
(* non-blanks.                                                             *)
(***************************************************************************)
Indent == <<" ", " ">>

\* length of the run of characters like the first one at the head of s
RECURSIVE RunLen(_)
RunLen(s) ==
    IF Len(s) <= 1 THEN Len(s)
    ELSE IF (s[1] = " ") = (s[2] = " ") THEN 1 + RunLen(Tail(s)) ELSE 1

\* TextWrapper._split
RECURSIVE SplitChunks(_)
SplitChunks(s) ==
    IF s = <<>> THEN <<>>
    ELSE LET n == RunLen(s) IN
         <<Take(s, n)>> \o SplitChunks(Drop(s, n))

\* how many leading chunks fit in width columns
RECURSIVE TakeFit(_, _)
TakeFit(chunks, width) ==
    IF chunks # <<>> /\ Len(Head(chunks)) <= width
    THEN 1 + TakeFit(Tail(chunks), width - Len(Head(chunks)))
    ELSE 0

\* TextWrapper._wrap_chunks, one output line per recursion
RECURSIVE WrapChunks(_, _, _)
WrapChunks(chunks, lines, w) ==
    IF chunks = <<>> THEN lines
    ELSE
      LET width == w - Len(Indent)
          \* drop_whitespace: a blank chunk at the start of a later line
          c1 == IF IsBlank(Head(chunks)) /\ lines # <<>> THEN Tail(chunks) ELSE chunks
          n == TakeFit(c1, width)
          cur == Take(c1, n)
          rest == Drop(c1, n)
          cur_len == Len(Join(cur))
          \* _handle_long_word, break_long_words=True
          long == rest # <<>> /\ Len(Head(rest)) > width
          space_left == IF width < 1 THEN 1 ELSE width - cur_len
          cur2 == IF long THEN Append(cur, Take(Head(rest), space_left)) ELSE cur
          rest2 == IF long
                   THEN <<Drop(Head(rest), space_left)>> \o Tail(rest)
                   ELSE rest
          \* drop_whitespace: a blank chunk at the end of the line
          cur3 == IF cur2 # <<>> /\ IsBlank(cur2[Len(cur2)])
                  THEN Take(cur2, Len(cur2) - 1) ELSE cur2
      IN WrapChunks(rest2,
                    IF cur3 # <<>> THEN Append(lines, Indent \o Join(cur3)) ELSE lines,
                    w)

wrap(text, w) == WrapChunks(SplitChunks(text), <<>>, w)

\* self._wrapper, chosen by ErrorHandler.__init__ from get_termsize()
Wrapper(ts, rawline) ==
    IF ts # None /\ ts[1] > 0 THEN wrap(rawline, ts[1]) ELSE <<rawline>>

(***************************************************************************)
(* ErrorHandler.  A handler method is named by its __name__: "error",      *)
(* "warn", "debug".  The pure part of each method maps the counters to the *)
(* new counters and the records passed to the logger.                      *)
(***************************************************************************)
Handlers == {"error", "warn", "debug"}

\* the raw lines put back into one paragraph
RECURSIVE JoinLines(_)
JoinLines(rawlines) ==
    IF rawlines = <<>> THEN <<>>
    ELSE IF Len(rawlines) = 1 THEN Head(rawlines)
    ELSE Head(rawlines) \o <<" ">> \o JoinLines(Tail(rawlines))

\* the lines when the message is wrapped in one pass, not line by line
WrappedLinesWholeMessage(ts, rawlines) ==
    IF rawlines = <<>> THEN <<>> ELSE Wrapper(ts, JoinLines(rawlines))

\* the lines  for rawline in rawlines: for line in self._wrapper(rawline)
RECURSIVE WrappedLines(_, _)
WrappedLines(ts, rawlines) ==
    IF rawlines = <<>> THEN <<>>
    ELSE Wrapper(ts, Head(rawlines)) \o WrappedLines(ts, Tail(rawlines))

\* ErrorHandler._log: the records handed to logfunc, in order
Log(ts, msg, level, prefix) ==
    LET lines == WrappedLines(ts, splitlines(msg))
        pre == IF prefix = "" THEN <<>> ELSE <<prefix>>
    IN [i \in 1..Len(lines) |->
          [level |-> level,
           text  |-> IF i = 1 THEN pre \o lstrip(lines[i]) ELSE lines[i]]]

\* ErrorHandler.error
error(st, msg) ==
    [errors   |-> st.errors + 1,
     warnings |-> st.warnings,
     out      |-> Log(st.termsize, msg, "error", "ERROR: ")]

\* warn with the counter of error: self.errors += 1
warnCountsError(st, msg) ==
    [errors   |-> st.errors + 1,
     warnings |-> st.warnings,
     out      |-> Log(st.termsize, msg, "warning", "WARNING: ")]

\* ErrorHandler.warn
warn(st, msg) ==
    [errors   |-> st.errors,
     warnings |-> st.warnings + 1,
     out      |-> Log(st.termsize, msg, "warning", "WARNING: ")]

\* ErrorHandler.debug
debug(st, msg) ==
    [errors   |-> st.errors,
     warnings |-> st.warnings,
     out      |-> Log(st.termsize, msg, "debug", "")]

\* self.errortypes[err](msg): the bound method stored in the registry
CallHandler(h, st, msg) ==
    CASE h = "error" -> error(st, msg)
      [] h = "warn"  -> warn(st, msg)
      [] h = "debug" -> debug(st, msg)

\* the choice of handler with error as the final else
ActionHandlerDefaultError(action) ==
    IF Contains(action, <<"w", "a", "r", "n">>) THEN "warn"
    ELSE IF Contains(action, <<"s", "i", "l", "e", "n", "t">>) THEN "debug"
    ELSE "error"

\* the handler RegisterErrors stores for an action string
ActionHandler(action) ==
    IF Contains(action, <<"w", "a", "r", "n">>) THEN "warn"
    ELSE IF Contains(action, <<"e", "r", "r">>) THEN "error"
    ELSE "debug"

\* RegisterErrors without the  err not in self.errortypes  test: the last call wins
RegisterErrorsOverwrite(et, errs) ==
    [k \in DOMAIN et \cup DOMAIN errs |->
        IF k \in DOMAIN errs THEN ActionHandler(errs[k]) ELSE et[k]]

\* ErrorHandler.RegisterErrors: the registry after registering errs on et
RegisterErrors(et, errs) ==
    [k \in DOMAIN et \cup DOMAIN errs |->
        IF k \in DOMAIN et THEN et[k] ELSE ActionHandler(errs[k])]

\* dispatch without the  self.logger.warning("Unknown error ...")  of the else branch
dispatchUnknownUnreported(st, et, err, msg) ==
    IF err \in DOMAIN et
    THEN LET r == CallHandler(et[err], st, msg) IN
         [r EXCEPT !.out = @ \o <<[level |-> "debug", text |-> <<"    (", err, ")">>]>>]
    ELSE error(st, msg)

\* dispatch with the line naming the kind logged before the handler is called
dispatchKindFirst(st, et, err, msg) ==
    IF err \in DOMAIN et
    THEN LET r == CallHandler(et[err], st, msg) IN
         [r EXCEPT !.out = <<[level |-> "debug", text |-> <<"    (", err, ")">>]>> \o @]
    ELSE LET r == error(st, msg) IN
         [r EXCEPT !.out = <<[level |-> "warning",
                              text |-> <<"Unknown error ", err>>]>> \o @]

\* dispatch whose else branch also counts the warning it logs
dispatchUnknownCountsBoth(st, et, err, msg) ==
    IF err \in DOMAIN et
    THEN LET r == CallHandler(et[err], st, msg) IN
         [r EXCEPT !.out = @ \o <<[level |-> "debug", text |-> <<"    (", err, ")">>]>>]
    ELSE LET r == error(st, msg) IN
         [r EXCEPT !.warnings = @ + 1,
                   !.out = @ \o <<[level |-> "warning",
                                   text |-> <<"Unknown error ", err>>]>>]

\* ErrorHandler.dispatch
dispatch(st, et, err, msg) ==
    IF err \in DOMAIN et
    THEN LET r == CallHandler(et[err], st, msg) IN
         [r EXCEPT !.out = @ \o <<[level |-> "debug", text |-> <<"    (", err, ")">>]>>]
    ELSE LET r == error(st, msg) IN
         [r EXCEPT !.out = @ \o <<[level |-> "warning",
                                   text |-> <<"Unknown error ", err>>]>>]

\* ErrorHandler.__init__: the registry of ErrorHandler(errors=errors)
ErrorHandlerInit(errs) ==
    IF errs # None THEN RegisterErrors(EmptyDict, errs[1]) ELSE EmptyDict

(***************************************************************************)
(* Plugin classes.  A lint plugin is a black box to the runner: a class    *)
(* that is or is not a ServerPlugin, with the dict its Errors() returns.   *)
(***************************************************************************)
DeclDicts == { [k \in {"dup-group"} |-> ActError],
               [k \in Kinds |-> IF k = "dup-group" THEN ActWarning ELSE ActSilent] }

PluginClasses == [server : BOOLEAN, Errors : DeclDicts]

\* the [errors] section of the lint configuration: None, or <<dict>>
ConfigErrors == { None,
                  <<[k \in {"dup-group"} |-> ActSilent]>>,
                  <<[k \in {"stale-path"} |-> ActError]>> }

\* messages the plugins of a run dispatch: "" and "ab a\n\nb"
RunMsgs == { <<>>, <<"a", "b", " ", "a", "\n", "\n", "b">> }

\* what get_termsize() returns to the handler of a run
RunTermSizes == {None, <<4>>}

\* lists of at most n plugin classes
PluginLists(n) == UNION {[1..m -> PluginClasses] : m \in 0..n}

\* Bcfg2.Options.setup, as CLI.__init__ reads it
Setups ==
    [list_errors  : BOOLEAN,
     verbose      : BOOLEAN,
     lint_errors  : ConfigErrors,
     lint_plugins : PluginLists(MaxPlugins)]

VARIABLES
    \* ErrorHandler
    errors,       \* self.errors
    warnings,     \* self.warnings
    errortypes,   \* self.errortypes: kind -> name of the handler method
    termsize,     \* what get_termsize() returned to __init__ (fixes self._wrapper)
    logged,       \* the records the last step passed to the bcfg2-lint logger
    \* CLI
    setup,        \* Bcfg2.Options.setup
    serverlessplugins,
    serverplugins,
    pc,           \* position in CLI.run
    idx,          \* index of the current plugin in the list of its phase
    core,         \* state of the server core of run_server_plugins
    stdout,       \* what CLI.run printed
    rv,           \* None, or <<the value CLI.run returned>>
    \* history
    firstAction,  \* kind -> action string of the first RegisterErrors call naming it
    reRegistered, \* kinds a later RegisterErrors call named with an action of another handler
    resolved,     \* handler name -> number of dispatches of a registered kind that called it
    unknown,      \* number of dispatches of a kind that was not registered
    lastCall,     \* None, or <<[err, msg, known, by]>> of the last dispatch
    history,      \* plugin and core events of the run, in order
    errorsAtDecision, \* None, or <<self.errors when run_serverless_plugins returned>>
    \* a single call of a method that computes a value from its arguments
    fcall,        \* None, or <<[the arguments, and the result once the call is made]>>
    \* tools/upgrade/1.3/migrate_info.py
    repo          \* None, or <<[the directories of the repository, the position of main]>>

ehvars == <<errors, warnings, errortypes, termsize, logged>>
clivars == <<setup, serverlessplugins, serverplugins, pc, idx, core, stdout, rv>>
ghostvars == <<firstAction, reRegistered, resolved, unknown, lastCall, history, errorsAtDecision>>
vars == <<ehvars, clivars, ghostvars, fcall, repo>>

\* the counters and the wrapper of the handler, as the methods read them
Self == [errors |-> errors, warnings |-> warnings, termsize |-> termsize]

\* the number of dispatch calls made so far
Calls == resolved["error"] + resolved["warn"] + resolved["debug"] + unknown

\* the history of first registrations after one more RegisterErrors(errs)
FirstNamed(first, errs) ==
    [k \in DOMAIN first \cup DOMAIN errs |->
        IF k \in DOMAIN first THEN first[k] ELSE errs[k]]

\* the kinds of errs that an earlier call named with an action of another handler
ReNamed(first, errs) ==
    {k \in DOMAIN first \cap DOMAIN errs : ActionHandler(errs[k]) # ActionHandler(first[k])}

RECURSIVE ReNamedAll(_, _)
ReNamedAll(first, plugins) ==
    IF plugins = <<>> THEN {}
    ELSE ReNamed(first, Head(plugins).Errors)
           \cup ReNamedAll(FirstNamed(first, Head(plugins).Errors), Tail(plugins))

(***************************************************************************)
(* Calls on the handler, whoever makes them.                               *)
(***************************************************************************)
\* self.errorhandler.RegisterErrors(errs)
DoRegister(errs) ==
    /\ errortypes' = RegisterErrors(errortypes, errs)
    /\ firstAction' = FirstNamed(firstAction, errs)
    /\ reRegistered' = reRegistered \cup ReNamed(firstAction, errs)

\* self.errorhandler.dispatch(err, msg), called by plugin `by`
DoDispatch(err, msg, by) ==
    LET r == dispatch(Self, errortypes, err, msg)
        known == err \in DOMAIN errortypes
    IN /\ errors' = r.errors
       /\ warnings' = r.warnings
       /\ logged' = r.out
       /\ resolved' = IF known THEN [resolved EXCEPT ![errortypes[err]] = @ + 1]
                      ELSE resolved
       /\ unknown' = IF known THEN unknown ELSE unknown + 1
       /\ lastCall' = <<[err |-> err, msg |-> msg,
                         known |-> err \in DOMAIN errortypes, by |-> by]>>

(***************************************************************************)
(* A stand-alone ErrorHandler: any RegisterErrors and dispatch calls.      *)
(***************************************************************************)
IdleSetup == [list_errors |-> FALSE, verbose |-> FALSE,
              lint_errors |-> None, lint_plugins |-> <<>>]

InitEH ==
    /\ \E errs \in {None} \cup {<<d>> : d \in ErrorDicts} :
          /\ errortypes = ErrorHandlerInit(errs)
          /\ firstAction = IF errs # None THEN errs[1] ELSE EmptyDict
    /\ errors = 0
    /\ warnings = 0
    /\ termsize \in TermSizes
    /\ logged = <<>>
    /\ setup = IdleSetup
    /\ serverlessplugins = <<>>
    /\ serverplugins = <<>>
    /\ reRegistered = {}
    /\ pc = "handler"
    /\ idx = 0
    /\ core = "none"
    /\ stdout = <<>>
    /\ rv = None
    /\ resolved = [h \in Handlers |-> 0]
    /\ unknown = 0
    /\ lastCall = None
    /\ history = <<>>
    /\ errorsAtDecision = None
    /\ fcall = None
    /\ repo = None

EHRegisterErrors(errs) ==
    /\ pc = "handler"
    /\ DoRegister(errs)
    /\ logged' = <<>>
    /\ UNCHANGED <<errors, warnings, termsize, clivars,
                   resolved, unknown, lastCall, history, errorsAtDecision>>
    /\ UNCHANGED <<fcall, repo>>

\* a dispatch that registers the kind it did not find, as an error
EHDispatchRegistersUnknown(err, msg) ==
    /\ pc = "handler"
    /\ Calls < MaxDispatch
    /\ DoDispatch(err, msg, <<>>)
    /\ errortypes' = [k \in DOMAIN errortypes \cup {err} |->
                         IF k \in DOMAIN errortypes THEN errortypes[k] ELSE "error"]
    /\ UNCHANGED <<termsize, clivars, firstAction, reRegistered, history, errorsAtDecision>>
    /\ UNCHANGED <<fcall, repo>>

EHDispatch(err, msg) ==
    /\ pc = "handler"
    /\ Calls < MaxDispatch
    /\ DoDispatch(err, msg, <<>>)
    /\ UNCHANGED <<errortypes, termsize, clivars, firstAction, reRegistered, history, errorsAtDecision>>
    /\ UNCHANGED <<fcall, repo>>

NextEH ==
    \/ \E errs \in ErrorDicts : EHRegisterErrors(errs)
    \/ \E err \in Kinds, msg \in Msgs : EHDispatch(err, msg)

SpecEH == InitEH /\ [][NextEH]_vars

(***************************************************************************)
(* The CLI.  Init is the state CLI.__init__ leaves; the actions are the    *)
(* steps of CLI.run.  pc is "start" before run is called, "returned" once  *)
(* it has returned rv, and "raised" once an exception has left it.         *)
(* history holds <<"init", phase, i>> when the constructor of plugin i of  *)
(* a phase is called, <<"run", phase, i>> when its Run is called,          *)
(* <<"return", phase, i>> and <<"fault", phase, i>> when Run or the        *)
(* constructor ends, and <<"core", what>> for the calls on the core.       *)
(***************************************************************************)
IsServerPlugin(plugin) == plugin.server
IsServerlessPlugin(plugin) == ~plugin.server

\* get_errorhandler that builds ErrorHandler() without the configured errors
get_errorhandlerNoConfig(lint_errors) == ErrorHandlerInit(None)

\* CLI.get_errorhandler: the registry of the shared handler
get_errorhandler(lint_errors) == ErrorHandlerInit(lint_errors)

\* the serverless list when the append is not under the else
ServerlessPluginsOfAll(lint_plugins) == lint_plugins

\* the partition of CLI.__init__
ServerPluginsOf(lint_plugins) == SelectSeq(lint_plugins, IsServerPlugin)
ServerlessPluginsOf(lint_plugins) == SelectSeq(lint_plugins, IsServerlessPlugin)

Init ==
    /\ setup \in Setups
    /\ termsize \in RunTermSizes
    /\ errors = 0
    /\ warnings = 0
    /\ errortypes = get_errorhandler(setup.lint_errors)
    /\ firstAction = IF setup.lint_errors # None THEN setup.lint_errors[1] ELSE EmptyDict
    /\ reRegistered = {}
    /\ logged = <<>>
    /\ serverplugins = ServerPluginsOf(setup.lint_plugins)
    /\ serverlessplugins = ServerlessPluginsOf(setup.lint_plugins)
    /\ pc = "start"
    /\ idx = 0
    /\ core = "none"
    /\ stdout = <<>>
    /\ rv = None
    /\ resolved = [h \in Handlers |-> 0]
    /\ unknown = 0
    /\ lastCall = None
    /\ history = <<>>
    /\ errorsAtDecision = None
    /\ fcall = None
    /\ repo = None

\* the registry after RegisterErrors of the Errors() of each plugin of a list
RECURSIVE RegisterAll(_, _)
RegisterAll(et, plugins) ==
    IF plugins = <<>> THEN et
    ELSE RegisterAll(RegisterErrors(et, Head(plugins).Errors), Tail(plugins))

RECURSIVE FirstNamedAll(_, _)
FirstNamedAll(first, plugins) ==
    IF plugins = <<>> THEN first
    ELSE FirstNamedAll(FirstNamed(first, Head(plugins).Errors), Tail(plugins))

\* the rows  err, handler.__name__  of self.errorhandler.errortypes.items()
Listing(et) == {<<err, et[err]>> : err \in DOMAIN et}

\* the --list-errors branch registering the server plugins only
RunListErrorsServerOnly ==
    /\ pc = "start"
    /\ setup.list_errors
    /\ LET plugins == serverplugins IN
         /\ errortypes' = RegisterAll(errortypes, plugins)
         /\ firstAction' = FirstNamedAll(firstAction, plugins)
         /\ reRegistered' = reRegistered \cup ReNamedAll(firstAction, plugins)
    /\ stdout' = Append(stdout, <<"listing", Listing(errortypes')>>)
    /\ rv' = <<0>>
    /\ pc' = "returned"
    /\ logged' = <<>>
    /\ UNCHANGED <<errors, warnings, termsize, setup, serverlessplugins, serverplugins,
                   idx, core, resolved, unknown, lastCall, history, errorsAtDecision>>
    /\ UNCHANGED <<fcall, repo>>

\* run: the --list-errors branch
RunListErrors ==
    /\ pc = "start"
    /\ setup.list_errors
    /\ LET plugins == serverplugins \o serverlessplugins IN
         /\ errortypes' = RegisterAll(errortypes, plugins)
         /\ firstAction' = FirstNamedAll(firstAction, plugins)
         /\ reRegistered' = reRegistered \cup ReNamedAll(firstAction, plugins)
    /\ stdout' = Append(stdout, <<"listing", Listing(errortypes')>>)
    /\ rv' = <<0>>
    /\ pc' = "returned"
    /\ logged' = <<>>
    /\ UNCHANGED <<errors, warnings, termsize, setup, serverlessplugins, serverplugins,
                   idx, core, resolved, unknown, lastCall, history, errorsAtDecision>>
    /\ UNCHANGED <<fcall, repo>>

\* run: no plugins loaded (the error line goes to the CLI's own logger, which is
\* not the bcfg2-lint logger of the handler)
RunNoPlugins ==
    /\ pc = "start"
    /\ ~setup.list_errors
    /\ serverplugins = <<>> /\ serverlessplugins = <<>>
    /\ rv' = <<1>>
    /\ pc' = "returned"
    /\ logged' = <<>>
    /\ UNCHANGED <<errors, warnings, errortypes, termsize, setup, serverlessplugins,
                   serverplugins, idx, core, stdout, ghostvars>>
    /\ UNCHANGED <<fcall, repo>>

\* run calling run_server_plugins first when server plugins are loaded
RunStartServerFirst ==
    /\ pc = "start"
    /\ ~setup.list_errors
    /\ ~(serverplugins = <<>> /\ serverlessplugins = <<>>)
    /\ pc' = IF serverplugins # <<>> THEN "core_new" ELSE "serverless"
    /\ idx' = 1
    /\ logged' = <<>>
    /\ UNCHANGED <<errors, warnings, errortypes, termsize, setup, serverlessplugins,
                   serverplugins, core, stdout, rv, ghostvars>>
    /\ UNCHANGED <<fcall, repo>>

\* run: self.run_serverless_plugins() is called
RunStart ==
    /\ pc = "start"
    /\ ~setup.list_errors
    /\ ~(serverplugins = <<>> /\ serverlessplugins = <<>>)
    /\ pc' = "serverless"
    /\ idx' = 1
    /\ logged' = <<>>
    /\ UNCHANGED <<errors, warnings, errortypes, termsize, setup, serverlessplugins,
                   serverplugins, core, stdout, rv, ghostvars>>
    /\ UNCHANGED <<fcall, repo>>

(***************************************************************************)
(* run_serverless_plugins:  plugin(files=..., errorhandler=...).Run()      *)
(* for each serverless plugin.  Nothing catches what a plugin raises.      *)
(***************************************************************************)
\* a constructor that does not call self.errorhandler.RegisterErrors(self.Errors())
ServerlessConstructNoRegister ==
    /\ pc = "serverless"
    /\ idx <= Len(serverlessplugins)
    /\ history' = history \o << <<"init", "serverless", idx>>, <<"run", "serverless", idx>> >>
    /\ pc' = "serverless_run"
    /\ logged' = <<>>
    /\ UNCHANGED <<errors, warnings, errortypes, termsize, setup, serverlessplugins,
                   serverplugins, idx, core, stdout, rv,
                   firstAction, reRegistered, resolved, unknown, lastCall, errorsAtDecision>>
    /\ UNCHANGED <<fcall, repo>>

\* the constructor registers Errors() (Plugin.__init__) and Run is called
ServerlessConstruct ==
    /\ pc = "serverless"
    /\ idx <= Len(serverlessplugins)
    /\ DoRegister(serverlessplugins[idx].Errors)
    /\ history' = history \o << <<"init", "serverless", idx>>, <<"run", "serverless", idx>> >>
    /\ pc' = "serverless_run"
    /\ logged' = <<>>
    /\ UNCHANGED <<errors, warnings, termsize, setup, serverlessplugins, serverplugins,
                   idx, core, stdout, rv, resolved, unknown, lastCall, errorsAtDecision>>
    /\ UNCHANGED <<fcall, repo>>

\* the constructor raises, before or after Plugin.__init__ registered Errors()
ServerlessCtorFault(registered) ==
    /\ pc = "serverless"
    /\ idx <= Len(serverlessplugins)
    /\ IF registered
       THEN DoRegister(serverlessplugins[idx].Errors)
       ELSE UNCHANGED <<errortypes, firstAction, reRegistered>>
    /\ history' = history \o << <<"init", "serverless", idx>>, <<"fault", "serverless", idx>> >>
    /\ pc' = "raised"
    /\ logged' = <<>>
    /\ UNCHANGED <<errors, warnings, termsize, setup, serverlessplugins, serverplugins,
                   idx, core, stdout, rv, resolved, unknown, lastCall, errorsAtDecision>>
    /\ UNCHANGED <<fcall, repo>>

\* Run calls self.LintError(err, msg)
ServerlessDispatch(err, msg) ==
    /\ pc = "serverless_run"
    /\ Calls < MaxDispatch
    /\ DoDispatch(err, msg, <<"serverless", idx>>)
    /\ UNCHANGED <<errortypes, termsize, clivars, firstAction, reRegistered, history, errorsAtDecision>>
    /\ UNCHANGED <<fcall, repo>>

\* Run returns
ServerlessReturn ==
    /\ pc = "serverless_run"
    /\ history' = Append(history, <<"return", "serverless", idx>>)
    /\ idx' = idx + 1
    /\ pc' = "serverless"
    /\ logged' = <<>>
    /\ UNCHANGED <<errors, warnings, errortypes, termsize, setup, serverlessplugins,
                   serverplugins, core, stdout, rv,
                   firstAction, reRegistered, resolved, unknown, lastCall, errorsAtDecision>>
    /\ UNCHANGED <<fcall, repo>>

\* Run raises: the exception leaves run_serverless_plugins and run
ServerlessFault ==
    /\ pc = "serverless_run"
    /\ history' = Append(history, <<"fault", "serverless", idx>>)
    /\ pc' = "raised"
    /\ logged' = <<>>
    /\ UNCHANGED <<errors, warnings, errortypes, termsize, setup, serverlessplugins,
                   serverplugins, idx, core, stdout, rv,
                   firstAction, reRegistered, resolved, unknown, lastCall, errorsAtDecision>>
    /\ UNCHANGED <<fcall, repo>>

\* the decision without the  if self.errorhandler.errors  test
ServerPhaseDecisionIgnoringErrors(splugins, errs) ==
    IF splugins # <<>> THEN "run" ELSE "none"

\* the decision with the errors test outside the  if self.serverplugins  test
ServerPhaseDecisionErrorsOnly(splugins, errs) ==
    IF errs # 0
    THEN IF splugins # <<>> THEN "skip" ELSE "none"
    ELSE "run"

\* run, after run_serverless_plugins: "run" the server plugins, "skip" them
\* because of errors, or "none" to run
ServerPhaseDecision(splugins, errs) ==
    IF splugins # <<>>
    THEN IF errs # 0 THEN "skip" ELSE "run"
    ELSE "none"

\* run_serverless_plugins returns and run decides about the server plugins
ServerlessDone ==
    /\ pc = "serverless"
    /\ idx > Len(serverlessplugins)
    /\ errorsAtDecision' = <<errors>>
    /\ LET d == ServerPhaseDecision(serverplugins, errors) IN
         /\ stdout' = IF d = "skip" THEN Append(stdout, <<"skipping server plugins">>)
                      ELSE stdout
         /\ pc' = IF d = "run" THEN "core_new" ELSE "report"
    /\ logged' = <<>>
    /\ UNCHANGED <<errors, warnings, errortypes, termsize, setup, serverlessplugins,
                   serverplugins, idx, core, rv,
                   firstAction, reRegistered, resolved, unknown, lastCall, history>>
    /\ UNCHANGED <<fcall, repo>>

(***************************************************************************)
(* run_server_plugins: the core is built, then try: the plugins run,       *)
(* finally: core.shutdown().                                               *)
(***************************************************************************)
\* core = Bcfg2.Server.Core.Core()
CoreConstruct ==
    /\ pc = "core_new"
    /\ core' = "constructed"
    /\ history' = Append(history, <<"core", "new">>)
    /\ pc' = "core_load"
    /\ logged' = <<>>
    /\ UNCHANGED <<errors, warnings, errortypes, termsize, setup, serverlessplugins,
                   serverplugins, idx, stdout, rv,
                   firstAction, reRegistered, resolved, unknown, lastCall, errorsAtDecision>>
    /\ UNCHANGED <<fcall, repo>>

\* core.load_plugins()
CoreLoadPlugins ==
    /\ pc = "core_load"
    /\ core' = "loaded"
    /\ pc' = "core_block"
    /\ logged' = <<>>
    /\ UNCHANGED <<errors, warnings, errortypes, termsize, setup, serverlessplugins,
                   serverplugins, idx, stdout, rv, ghostvars>>
    /\ UNCHANGED <<fcall, repo>>

\* core.block_for_fam_events(handle_events=True); the try block is entered
CoreBlockForFamEvents ==
    /\ pc = "core_block"
    /\ core' = "ready"
    /\ history' = Append(history, <<"core", "ready">>)
    /\ pc' = "server"
    /\ idx' = 1
    /\ logged' = <<>>
    /\ UNCHANGED <<errors, warnings, errortypes, termsize, setup, serverlessplugins,
                   serverplugins, stdout, rv,
                   firstAction, reRegistered, resolved, unknown, lastCall, errorsAtDecision>>
    /\ UNCHANGED <<fcall, repo>>

\* one of the three calls before the try block raises: no finally applies
CoreFault ==
    /\ pc \in {"core_new", "core_load", "core_block"}
    /\ history' = Append(history, <<"core", "fault">>)
    /\ pc' = "raised"
    /\ logged' = <<>>
    /\ UNCHANGED <<errors, warnings, errortypes, termsize, setup, serverlessplugins,
                   serverplugins, idx, core, stdout, rv,
                   firstAction, reRegistered, resolved, unknown, lastCall, errorsAtDecision>>
    /\ UNCHANGED <<fcall, repo>>

\* plugin(core, files=..., errorhandler=...).Run(): constructor, Run called
ServerConstruct ==
    /\ pc = "server"
    /\ idx <= Len(serverplugins)
    /\ DoRegister(serverplugins[idx].Errors)
    /\ history' = history \o << <<"init", "server", idx, core>>, <<"run", "server", idx>> >>
    /\ pc' = "server_run"
    /\ logged' = <<>>
    /\ UNCHANGED <<errors, warnings, termsize, setup, serverlessplugins, serverplugins,
                   idx, core, stdout, rv, resolved, unknown, lastCall, errorsAtDecision>>
    /\ UNCHANGED <<fcall, repo>>

\* the constructor raises; finally: core.shutdown(), and the exception leaves run
ServerCtorFault(registered) ==
    /\ pc = "server"
    /\ idx <= Len(serverplugins)
    /\ IF registered
       THEN DoRegister(serverplugins[idx].Errors)
       ELSE UNCHANGED <<errortypes, firstAction, reRegistered>>
    /\ history' = history \o << <<"init", "server", idx, core>>, <<"fault", "server", idx>>,
                                <<"core", "shutdown">> >>
    /\ core' = "shutdown"
    /\ pc' = "raised"
    /\ logged' = <<>>
    /\ UNCHANGED <<errors, warnings, termsize, setup, serverlessplugins, serverplugins,
                   idx, stdout, rv, resolved, unknown, lastCall, errorsAtDecision>>
    /\ UNCHANGED <<fcall, repo>>

\* Run calls self.LintError(err, msg)
ServerDispatch(err, msg) ==
    /\ pc = "server_run"
    /\ Calls < MaxDispatch
    /\ DoDispatch(err, msg, <<"server", idx>>)
    /\ UNCHANGED <<errortypes, termsize, clivars, firstAction, reRegistered, history, errorsAtDecision>>
    /\ UNCHANGED <<fcall, repo>>

\* Run returns
ServerReturn ==
    /\ pc = "server_run"
    /\ history' = Append(history, <<"return", "server", idx>>)
    /\ idx' = idx + 1
    /\ pc' = "server"
    /\ logged' = <<>>
    /\ UNCHANGED <<errors, warnings, errortypes, termsize, setup, serverlessplugins,
                   serverplugins, core, stdout, rv,
                   firstAction, reRegistered, resolved, unknown, lastCall, errorsAtDecision>>
    /\ UNCHANGED <<fcall, repo>>

\* Run raises and no finally block shuts the core down
ServerFaultNoShutdown ==
    /\ pc = "server_run"
    /\ history' = Append(history, <<"fault", "server", idx>>)
    /\ pc' = "raised"
    /\ logged' = <<>>
    /\ UNCHANGED <<errors, warnings, errortypes, termsize, setup, serverlessplugins,
                   serverplugins, idx, core, stdout, rv,
                   firstAction, reRegistered, resolved, unknown, lastCall, errorsAtDecision>>
    /\ UNCHANGED <<fcall, repo>>

\* Run raises; finally: core.shutdown(), and the exception leaves run
ServerFault ==
    /\ pc = "server_run"
    /\ history' = history \o << <<"fault", "server", idx>>, <<"core", "shutdown">> >>
    /\ core' = "shutdown"
    /\ pc' = "raised"
    /\ logged' = <<>>
    /\ UNCHANGED <<errors, warnings, errortypes, termsize, setup, serverlessplugins,
                   serverplugins, idx, stdout, rv,
                   firstAction, reRegistered, resolved, unknown, lastCall, errorsAtDecision>>
    /\ UNCHANGED <<fcall, repo>>

\* the end of the server phase returning from run without the report step
ServerDoneReturnsWithoutReport ==
    /\ pc = "server"
    /\ idx > Len(serverplugins)
    /\ history' = Append(history, <<"core", "shutdown">>)
    /\ core' = "shutdown"
    /\ pc' = "returned"
    /\ rv' = <<IF errors # 0 THEN 2 ELSE IF warnings # 0 THEN 3 ELSE 0>>
    /\ logged' = <<>>
    /\ UNCHANGED <<errors, warnings, errortypes, termsize, setup, serverlessplugins,
                   serverplugins, idx, stdout,
                   firstAction, reRegistered, resolved, unknown, lastCall, errorsAtDecision>>
    /\ UNCHANGED <<fcall, repo>>

\* the loop ends; finally: core.shutdown(); run_server_plugins returns
ServerDone ==
    /\ pc = "server"
    /\ idx > Len(serverplugins)
    /\ history' = Append(history, <<"core", "shutdown">>)
    /\ core' = "shutdown"
    /\ pc' = "report"
    /\ logged' = <<>>
    /\ UNCHANGED <<errors, warnings, errortypes, termsize, setup, serverlessplugins,
                   serverplugins, idx, stdout, rv,
                   firstAction, reRegistered, resolved, unknown, lastCall, errorsAtDecision>>
    /\ UNCHANGED <<fcall, repo>>

(***************************************************************************)
(* run: the summary and the return value.                                  *)
(***************************************************************************)
\* whether the two summary lines are printed
\* the summary test without the verbose option
PrintsSummaryFindingsOnly(errs, warns, verbose) == errs # 0 \/ warns # 0

PrintsSummary(errs, warns, verbose) == errs # 0 \/ warns # 0 \/ verbose

\* the return value with the warnings test before the errors test
ExitCodeWarningsFirst(errs, warns) ==
    IF warns # 0 THEN 3
    ELSE IF errs # 0 THEN 2
    ELSE 0

\* the value run returns after the plugins
ExitCode(errs, warns) ==
    IF errs # 0 THEN 2
    ELSE IF warns # 0 THEN 3
    ELSE 0

\* the report step clearing the counters once it has read them
ReportResetsCounters ==
    /\ pc = "report"
    /\ stdout' = IF PrintsSummary(errors, warnings, setup.verbose)
                 THEN Append(stdout, <<"summary", errors, warnings>>)
                 ELSE stdout
    /\ rv' = <<ExitCode(errors, warnings)>>
    /\ pc' = "returned"
    /\ logged' = <<>>
    /\ errors' = 0
    /\ warnings' = 0
    /\ UNCHANGED <<errortypes, termsize, setup, serverlessplugins,
                   serverplugins, idx, core, ghostvars>>
    /\ UNCHANGED <<fcall, repo>>

Report ==
    /\ pc = "report"
    /\ stdout' = IF PrintsSummary(errors, warnings, setup.verbose)
                 THEN Append(stdout, <<"summary", errors, warnings>>)
                 ELSE stdout
    /\ rv' = <<ExitCode(errors, warnings)>>
    /\ pc' = "returned"
    /\ logged' = <<>>
    /\ UNCHANGED <<errors, warnings, errortypes, termsize, setup, serverlessplugins,
                   serverplugins, idx, core, ghostvars>>
    /\ UNCHANGED <<fcall, repo>>

Next ==
    \/ RunListErrors
    \/ RunNoPlugins
    \/ RunStart
    \/ ServerlessConstruct
    \/ \E registered \in BOOLEAN : ServerlessCtorFault(registered)
    \/ \E err \in Kinds, msg \in RunMsgs : ServerlessDispatch(err, msg)
    \/ ServerlessReturn
    \/ ServerlessFault
    \/ ServerlessDone
    \/ CoreConstruct
    \/ CoreLoadPlugins
    \/ CoreBlockForFamEvents
    \/ CoreFault
    \/ ServerConstruct
    \/ \E registered \in BOOLEAN : ServerCtorFault(registered)
    \/ \E err \in Kinds, msg \in RunMsgs : ServerDispatch(err, msg)
    \/ ServerReturn
    \/ ServerFault
    \/ ServerDone
    \/ Report

Spec == Init /\ [][Next]_vars

\* CLI.run is one sequential call: while a step of it can be taken, one is
\* taken (every call it makes comes back, by returning or by raising)
SpecFair == Spec /\ WF_vars(Next)

(***************************************************************************)
(* Plugin.HandlesFile.  A path string is held as the flag "starts with a   *)
(* slash" and the sequence of its components, so that two path strings are *)
(* equal exactly when their records are equal; "." and ".." are components *)
(* like any other until normpath removes them.                             *)
(***************************************************************************)
Rel(parts) == [abs |-> FALSE, parts |-> parts]
Abs(parts) == [abs |-> TRUE, parts |-> parts]

\* os.path.join(a, b): an absolute b discards a
join(a, b) ==
    IF b.abs THEN b
    ELSE [abs |-> a.abs, parts |-> a.parts \o b.parts]

\* the component stack of os.path.normpath: "." is skipped, ".." removes the
\* component before it, is kept at the head of a relative path and dropped
\* at the root
RECURSIVE NormParts(_, _, _)
NormParts(parts, done, isabs) ==
    IF parts = <<>> THEN done
    ELSE LET c == Head(parts) IN
         IF c = "." THEN NormParts(Tail(parts), done, isabs)
         ELSE IF c = ".."
              THEN IF done # <<>> /\ done[Len(done)] # ".."
                   THEN NormParts(Tail(parts), Take(done, Len(done) - 1), isabs)
                   ELSE IF isabs
                        THEN NormParts(Tail(parts), done, isabs)
                        ELSE NormParts(Tail(parts), Append(done, c), isabs)
              ELSE NormParts(Tail(parts), Append(done, c), isabs)

normpath(p) == [abs |-> p.abs, parts |-> NormParts(p.parts, <<>>, p.abs)]

\* os.path.abspath(p) in the working directory cwd
abspath(cwd, p) == normpath(IF p.abs THEN p ELSE join(cwd, p))

\* x in l, for a list l
InList(x, l) == \E i \in 1..Len(l) : l[i] = x

\* HandlesFile when an empty filter counts as no filter
HandlesFileEmptyIsAbsent(files, repository, cwd, fname) ==
    \/ files = None
    \/ files[1] = <<>>
    \/ InList(fname, files[1])
    \/ InList(join(repository, fname), files[1])
    \/ InList(abspath(cwd, fname), files[1])
    \/ InList(abspath(cwd, join(repository, fname)), files[1])

\* HandlesFile without the last of the four tests
HandlesFileThreeForms(files, repository, cwd, fname) ==
    \/ files = None
    \/ InList(fname, files[1])
    \/ InList(join(repository, fname), files[1])
    \/ InList(abspath(cwd, fname), files[1])

\* files is None or <<the list self.files>>
HandlesFile(files, repository, cwd, fname) ==
    \/ files = None
    \/ InList(fname, files[1])
    \/ InList(join(repository, fname), files[1])
    \/ InList(abspath(cwd, fname), files[1])
    \/ InList(abspath(cwd, join(repository, fname)), files[1])

\* the longest file filter drawn
MaxFiles == 2

\* the paths a caller passes and a filter holds
FileNames == { Rel(<<"a">>), Rel(<<".", "a">>), Rel(<<"..", "r", "a">>),
               Rel(<<"r", "a">>), Rel(<<"b">>),
               Abs(<<"a">>), Abs(<<"r", "a">>), Abs(<<"c", "a">>),
               Abs(<<"r", ".", "a">>) }

\* Bcfg2.Options.setup.repository
Repositories == { Abs(<<"r">>), Abs(<<"c">>) }

\* os.getcwd()
WorkDirs == { Abs(<<>>), Abs(<<"r">>), Abs(<<"c">>) }

FileLists == UNION {[1..n -> FileNames] : n \in 0..MaxFiles}

\* the handler, the run and the history of a specification that only
\* applies one method to its arguments
Idle ==
    /\ errors = 0
    /\ warnings = 0
    /\ errortypes = EmptyDict
    /\ termsize = None
    /\ logged = <<>>
    /\ setup = IdleSetup
    /\ serverlessplugins = <<>>
    /\ serverplugins = <<>>
    /\ idx = 0
    /\ core = "none"
    /\ stdout = <<>>
    /\ rv = None
    /\ firstAction = EmptyDict
    /\ reRegistered = {}
    /\ resolved = [h \in Handlers |-> 0]
    /\ unknown = 0
    /\ lastCall = None
    /\ history = <<>>
    /\ errorsAtDecision = None

\* a plugin with a file filter, about to be asked about a path
InitHF ==
    /\ Idle
    /\ repo = None
    /\ pc = "plugin"
    /\ \E files \in {None} \cup {<<l>> : l \in FileLists},
          repository \in Repositories, cwd \in WorkDirs, fname \in FileNames :
          fcall = <<[files |-> files, repository |-> repository, cwd |-> cwd,
                     fname |-> fname, result |-> None]>>

CallHandlesFile ==
    /\ pc = "plugin"
    /\ fcall[1].result = None
    /\ fcall' = <<[fcall[1] EXCEPT !.result =
                      <<HandlesFile(fcall[1].files, fcall[1].repository,
                                    fcall[1].cwd, fcall[1].fname)>>]>>
    /\ UNCHANGED <<ehvars, clivars, ghostvars, repo>>

NextHF == CallHandlesFile

SpecHF == InitHF /\ [][NextHF]_vars

(***************************************************************************)
(* Properties.                                                             *)
(***************************************************************************)
\* the positions of history holding an event of a kind and a phase
Events(kind, phase) ==
    {i \in 1..Len(history) : history[i][1] = kind /\ history[i][2] = phase}

Finished == pc \in {"returned", "raised"}

NoPlugins == serverplugins = <<>> /\ serverlessplugins = <<>>

\* C1: after any sequence of dispatch and RegisterErrors calls, errors is the
\* number of dispatches that resolved to the error handler (those of a
\* registered kind whose handler was error, and every one of an unregistered
\* kind), and warnings is the number that resolved to the warning handler.
C1_CountersMatchDispatches ==
    /\ errors = resolved["error"] + unknown
    /\ warnings = resolved["warn"]

\* a dispatch of an unregistered kind and one resolved to warn have been counted
C1_Witness ==
    /\ pc = "handler"
    /\ unknown >= 1
    /\ resolved["warn"] >= 1

\* C2: if errors > 0 when the serverless phase has finished, no server plugin
\* is constructed or run and no core is built; a server plugin is constructed
\* or run only after that point, with errors = 0 at that point.
C2_NoServerPluginsAfterErrors ==
    /\ (errorsAtDecision # None /\ errorsAtDecision[1] > 0) =>
          /\ Events("init", "server") = {}
          /\ Events("run", "server") = {}
          /\ core = "none"
          /\ pc \in {"report", "returned"}
    /\ (Events("init", "server") # {} \/ Events("run", "server") # {}
          \/ pc \in {"server", "server_run"}) =>
          errorsAtDecision = <<0>>

\* a run with server plugins loaded returned after serverless errors
C2_Witness ==
    /\ pc = "returned"
    /\ serverplugins # <<>>
    /\ errorsAtDecision # None
    /\ errorsAtDecision[1] > 0

\* C3, as stated: whenever run returns, the value is 1 when no plugins were
\* loaded, 2 when errors > 0, 3 when errors = 0 and warnings > 0, else 0.
C3_ExitCodeAsStated ==
    pc = "returned" =>
        rv = << IF NoPlugins THEN 1
                ELSE IF errors > 0 THEN 2
                ELSE IF warnings > 0 THEN 3
                ELSE 0 >>

\* C3, amended: whenever run returns, the value is 0 on the --list-errors
\* path; otherwise 1 when no plugins were loaded, 2 when the final errors
\* counter is > 0 whatever warnings is, 3 when errors = 0 and warnings > 0,
\* and 0 otherwise, on the final tallies (server plugins' findings included).
C3_ExitCode ==
    pc = "returned" =>
        rv = << IF setup.list_errors THEN 0
                ELSE IF NoPlugins THEN 1
                ELSE IF errors > 0 THEN 2
                ELSE IF warnings > 0 THEN 3
                ELSE 0 >>

\* run returned 2 with warnings > 0, the error found by a server plugin
C3_Witness ==
    /\ pc = "returned"
    /\ rv = <<2>>
    /\ warnings > 0
    /\ errorsAtDecision = <<0>>

\* C4, as stated: a plugin that raises does not make run raise: every plugin
\* after it in its phase is still constructed and run, and run returns.
C4_FaultIsolated ==
    \A phase \in {"serverless", "server"} :
        \A i \in Events("fault", phase) :
            /\ pc # "raised"
            /\ Finished =>
                 /\ pc = "returned"
                 /\ LET plugins == IF phase = "server" THEN serverplugins
                                   ELSE serverlessplugins
                    IN \A j \in (history[i][3] + 1)..Len(plugins) :
                          \E n \in Events("run", phase) : history[n][3] = j

\* C5: in a run whose server phase acquired the core, one core is built, it
\* is the open core every server plugin is constructed with, core.shutdown()
\* is called exactly once, after the last event of a server plugin, whether
\* the plugins returned or one raised, and not before the plugins are over.
C5_CoreAcquiredOnceReleasedOnce ==
    LET news == Events("core", "new")
        shutdowns == Events("core", "shutdown")
        plugin == UNION {Events(e, "server") : e \in {"init", "run", "return", "fault"}}
    IN /\ Cardinality(news) <= 1
       /\ Cardinality(shutdowns) <= 1
       /\ \A i \in Events("init", "server") : history[i][4] = "ready"
       /\ \A i \in plugin :
             /\ \E n \in news : n < i
             /\ \A d \in shutdowns : i < d
       /\ pc \in {"server", "server_run"} => core = "ready" /\ shutdowns = {}
       /\ (Events("core", "ready") # {} /\ pc \in {"report", "returned", "raised"}) =>
             /\ Cardinality(news) = 1
             /\ Cardinality(shutdowns) = 1
             /\ core = "shutdown"

\* the second of two server plugins raised and the core was shut down
C5_Witness ==
    /\ pc = "raised"
    /\ core = "shutdown"
    /\ \E i \in Events("fault", "server") : history[i][3] = 2
    /\ \E i \in Events("return", "server") : history[i][3] = 1

\* C6: the handler a registered kind resolves to is the one of the action of
\* the first RegisterErrors call that named the kind, whatever later calls
\* named it with; and registering a dict twice gives the registry that
\* registering it once gives.
C6_FirstRegistrationWins ==
    /\ DOMAIN errortypes = DOMAIN firstAction
    /\ \A k \in DOMAIN errortypes : errortypes[k] = ActionHandler(firstAction[k])
    /\ \A d \in ErrorDicts :
          RegisterErrors(RegisterErrors(errortypes, d), d) = RegisterErrors(errortypes, d)

\* a later RegisterErrors call named a registered kind with another action
C6_Witness ==
    /\ pc = "handler"
    /\ reRegistered # {}

\* C7: a dispatch of a kind that is not registered adds exactly 1 to errors
\* and, in the same call, logs the warning "Unknown error <kind>", whatever
\* the message is.
C7_UnknownKindCountedAndReported ==
    [][ (Calls' = Calls + 1 /\ ~lastCall'[1].known) =>
            /\ errors' = errors + 1
            /\ logged' # <<>>
            /\ logged'[Len(logged')] =
                  [level |-> "warning", text |-> <<"Unknown error ", lastCall'[1].err>>]
      ]_vars

\* an unregistered kind was dispatched with the empty message
C7_Witness ==
    /\ pc = "handler"
    /\ lastCall # None
    /\ ~lastCall[1].known
    /\ lastCall[1].msg = <<>>
    /\ errors >= 1
    /\ Len(logged) = 1

\* the handler the three documented action names stand for
NamedHandler(action) ==
    CASE action = ActError   -> "error"
      [] action = ActWarning -> "warn"
      [] action = ActSilent  -> "debug"

\* the plugin class an event or a dispatch of a phase belongs to
PluginAt(phase, i) ==
    IF phase = "server" THEN serverplugins[i] ELSE serverlessplugins[i]

\* the listings printed so far
Listings == {stdout[i][2] : i \in {j \in 1..Len(stdout) : stdout[j][1] = "listing"}}

\* C8: a kind of the configured [errors] section resolves to the configured
\* action in every state of the run and in the --list-errors listing,
\* whatever the plugins constructed or listed declare for it.
C8_ConfiguredActionWins ==
    setup.lint_errors # None =>
        \A k \in DOMAIN setup.lint_errors[1] :
            /\ k \in DOMAIN errortypes
            /\ errortypes[k] = NamedHandler(setup.lint_errors[1][k])
            /\ \A rows \in Listings :
                  \A row \in rows : row[1] = k => row[2] = errortypes[k]
            /\ \A rows \in Listings : <<k, errortypes[k]>> \in rows

\* a plugin that declares another action for a configured kind was
\* constructed and dispatched the kind, which the configured handler took
C8_Witness ==
    /\ setup.lint_errors # None
    /\ lastCall # None
    /\ lastCall[1].by # <<>>
    /\ LET k == lastCall[1].err
           plugin == PluginAt(lastCall[1].by[1], lastCall[1].by[2])
       IN /\ k \in DOMAIN setup.lint_errors[1]
          /\ k \in DOMAIN plugin.Errors
          /\ ActionHandler(plugin.Errors[k]) # NamedHandler(setup.lint_errors[1][k])
          /\ resolved[NamedHandler(setup.lint_errors[1][k])] >= 1

\* C9, as stated: while a plugin's Run is in progress the declared kinds of
\* every loaded plugin are registered, and no dispatch of a kind that a loaded
\* plugin declares is classified as unknown.
C9_AllDeclaredKindsRegisteredBeforeAnyRun ==
    LET declared == UNION {DOMAIN setup.lint_plugins[i].Errors :
                              i \in 1..Len(setup.lint_plugins)}
    IN /\ pc \in {"serverless_run", "server_run"} => declared \subseteq DOMAIN errortypes
       /\ (lastCall # None /\ lastCall[1].err \in declared) => lastCall[1].known

\* C9, amended: the declared kinds of a plugin are registered when the plugin
\* is constructed, before its own Run is called, so while its Run is in
\* progress they are registered, and no dispatch by a plugin of a kind that
\* this plugin declares is classified as unknown.
C9_OwnKindsRegisteredBeforeRun ==
    /\ pc = "serverless_run" =>
          DOMAIN serverlessplugins[idx].Errors \subseteq DOMAIN errortypes
    /\ pc = "server_run" =>
          DOMAIN serverplugins[idx].Errors \subseteq DOMAIN errortypes
    /\ \A phase \in {"serverless", "server"} :
          \A i \in Events("run", phase) :
             DOMAIN PluginAt(phase, history[i][3]).Errors \subseteq DOMAIN errortypes
    /\ (lastCall # None /\ lastCall[1].by # <<>>) =>
          (lastCall[1].err \in DOMAIN PluginAt(lastCall[1].by[1], lastCall[1].by[2]).Errors
              => lastCall[1].known)

\* the second plugin of a phase dispatched a kind that it declares, that the
\* configuration does not name and that no plugin before it declares
C9_Witness ==
    /\ lastCall # None
    /\ lastCall[1].by # <<>>
    /\ lastCall[1].by[2] = 2
    /\ lastCall[1].known
    /\ setup.lint_errors = None
    /\ lastCall[1].err \in DOMAIN PluginAt(lastCall[1].by[1], 2).Errors
    /\ lastCall[1].err \notin DOMAIN PluginAt(lastCall[1].by[1], 1).Errors

\* the kinds the loaded plugins declare and the configured kinds
KnownKinds ==
    UNION {DOMAIN setup.lint_plugins[i].Errors : i \in 1..Len(setup.lint_plugins)}
      \cup (IF setup.lint_errors # None THEN DOMAIN setup.lint_errors[1] ELSE {})

\* C10: with --list-errors, run only lists: it returns 0 in one step, no
\* plugin is constructed or run, no core is built, both counters are 0, and
\* the one thing printed is the listing, whose rows are the kinds declared by
\* the loaded plugins of both partitions and the configured kinds, each once,
\* with the name of the handler the kind resolves to.
C10_ListErrorsRunsNothing ==
    setup.list_errors =>
        /\ pc \in {"start", "returned"}
        /\ history = <<>>
        /\ core = "none"
        /\ errors = 0 /\ warnings = 0 /\ Calls = 0
        /\ pc = "returned" =>
              /\ rv = <<0>>
              /\ Len(stdout) = 1
              /\ stdout[1][1] = "listing"
              /\ {row[1] : row \in stdout[1][2]} = KnownKinds
              /\ \A row \in stdout[1][2] :
                    /\ row[2] = errortypes[row[1]]
                    /\ row[2] = ActionHandler(firstAction[row[1]])
              /\ Cardinality(stdout[1][2]) = Cardinality(KnownKinds)

\* a listing with a configured kind, a server plugin, and a kind that only a
\* serverless plugin declares
C10_Witness ==
    /\ setup.list_errors
    /\ pc = "returned"
    /\ setup.lint_errors # None
    /\ serverplugins # <<>>
    /\ \E row \in stdout[1][2] :
          /\ row[1] \notin DOMAIN setup.lint_errors[1]
          /\ \A i \in 1..Len(serverplugins) : row[1] \notin DOMAIN serverplugins[i].Errors
          /\ \E i \in 1..Len(serverlessplugins) : row[1] \in DOMAIN serverlessplugins[i].Errors

(***************************************************************************)
(* C11: in a run that executes plugins and returns, the summary (the       *)
(* errors line and the warnings line, carrying the final counters) is      *)
(* printed if and only if the final errors counter is above 0, or the      *)
(* final warnings counter is above 0, or verbose output was requested; it  *)
(* is printed at most once; a non-verbose run with no findings prints no   *)
(* summary and returns 0.                                                  *)
(***************************************************************************)
Summaries == {i \in 1..Len(stdout) : stdout[i][1] = "summary"}

C11_SummaryIffFindingsOrVerbose ==
    (pc = "returned" /\ ~setup.list_errors /\ ~NoPlugins) =>
        /\ (Summaries # {}) <=> (errors > 0 \/ warnings > 0 \/ setup.verbose)
        /\ Cardinality(Summaries) <= 1
        /\ \A i \in Summaries : stdout[i] = <<"summary", errors, warnings>>
        /\ (~setup.verbose /\ errors = 0 /\ warnings = 0) =>
               (Summaries = {} /\ rv = <<0>>)

\* a verbose run whose plugins reported nothing to count prints the summary
\* with two zeros and returns 0
C11_Witness ==
    /\ pc = "returned"
    /\ ~setup.list_errors
    /\ setup.verbose
    /\ Events("return", "serverless") # {}
    /\ resolved["debug"] > 0
    /\ errors = 0 /\ warnings = 0
    /\ Summaries # {}
    /\ stdout[Len(stdout)] = <<"summary", 0, 0>>
    /\ rv = <<0>>

(***************************************************************************)
(* ErrorHandler._log, reached through error, warn or debug, applied once   *)
(* to each drawn message under each drawn terminal size.                   *)
(***************************************************************************)
\* the longest message drawn
MaxMsgLen == 5

\* the characters of the drawn messages: two letters, the blank, the line break
MsgChars == {"a", "b", " ", "\n"}

LogMsgs == UNION {[1..n -> MsgChars] : n \in 0..MaxMsgLen}

\* what get_termsize() returned: None off a terminal, or <<width>>
LogTermSizes == {None, <<0>>, <<3>>, <<5>>, <<7>>}

InitLog ==
    /\ Idle
    /\ repo = None
    /\ pc = "log"
    /\ \E msg \in LogMsgs, ts \in LogTermSizes, h \in Handlers :
          fcall = <<[msg |-> msg, termsize |-> ts, handler |-> h, out |-> None]>>

CallLog ==
    /\ pc = "log"
    /\ fcall[1].out = None
    /\ fcall' = <<[fcall[1] EXCEPT !.out =
                     <<CallHandler(fcall[1].handler,
                                   [errors |-> errors, warnings |-> warnings,
                                    termsize |-> fcall[1].termsize],
                                   fcall[1].msg).out>>]>>
    /\ UNCHANGED <<ehvars, clivars, ghostvars, repo>>

NextLog == CallLog

SpecLog == InitLog /\ [][NextLog]_vars

(***************************************************************************)
(* Plugin.HandlesFile, applied once to each drawn filter, repository,      *)
(* working directory and path.                                             *)
(***************************************************************************)
HFCall == fcall[1]

HFAnswered == fcall # None /\ pc = "plugin" /\ HFCall.result # None

\* the four forms of the file that path f names: f itself, f joined to the
\* repository root, f made absolute, and the repository-joined f made absolute
Forms(f, repository, cwd) ==
    {f, join(repository, f), abspath(cwd, f), abspath(cwd, join(repository, f))}

FilterHolds(files, forms) == \E i \in 1..Len(files[1]) : files[1][i] \in forms

\* C12 as stated: HandlesFile(path) is true whenever, for some file f named
\* by a bare relative path, the filter holds one of the four forms of f and
\* path is one of the four forms of f, whichever forms these are
C12_AnyFormMatchesAnyForm ==
    HFAnswered =>
        \A f \in FileNames :
            ( /\ ~f.abs
              /\ HFCall.files # None
              /\ HFCall.fname \in Forms(f, HFCall.repository, HFCall.cwd)
              /\ FilterHolds(HFCall.files, Forms(f, HFCall.repository, HFCall.cwd)) )
            => HFCall.result = <<TRUE>>

\* C12, amended: HandlesFile(path) is true whenever path is given in the
\* relative form and the filter holds any one of the four forms of path; the
\* result does depend on the form of path: a path given in an absolute form
\* is not matched by a filter that holds relative forms only.
C12_RelativePathMatchesAnyForm ==
    (HFAnswered /\ HFCall.files # None) =>
        /\ ( /\ ~HFCall.fname.abs
             /\ FilterHolds(HFCall.files,
                            Forms(HFCall.fname, HFCall.repository, HFCall.cwd)) )
           => HFCall.result = <<TRUE>>
        /\ ( /\ HFCall.fname.abs
             /\ \A i \in 1..Len(HFCall.files[1]) : ~HFCall.files[1][i].abs )
           => HFCall.result = <<FALSE>>

\* the path ./a, a filter that holds only /r/a, the repository /r and the
\* working directory /c: only the repository-joined path made absolute matches
C12_Witness ==
    /\ HFAnswered
    /\ HFCall.fname = Rel(<<".", "a">>)
    /\ HFCall.files = << <<Abs(<<"r", "a">>)>> >>
    /\ HFCall.repository = Abs(<<"r">>)
    /\ HFCall.cwd = Abs(<<"c">>)
    /\ HFCall.result = <<TRUE>>

\* C19: HandlesFile(path) is true if and only if the filter is absent or at
\* least one of four values is an entry of the filter: path as given, path
\* joined to the repository root, path made absolute, path joined to the
\* repository root and then made absolute; so it is true for every path when
\* the filter is absent and false for every path when the filter is the
\* empty list; and the call leaves the filter as it was.
C19_TrueIffAbsentOrOneOfFourValues ==
    [][ (fcall # None /\ pc = "plugin" /\ fcall' # fcall) =>
          LET c == fcall[1]
              r == fcall'[1].result
              values == {c.fname,
                         join(c.repository, c.fname),
                         abspath(c.cwd, c.fname),
                         abspath(c.cwd, join(c.repository, c.fname))}
          IN  /\ r \in {<<TRUE>>, <<FALSE>>}
              /\ (r = <<TRUE>>) <=>
                     (c.files = None \/
                      \E i \in 1..Len(c.files[1]) : c.files[1][i] \in values)
              /\ c.files = None => r = <<TRUE>>
              /\ c.files = << <<>> >> => r = <<FALSE>>
              /\ fcall'[1].files = c.files ]_vars

\* a plugin whose filter is the empty list was asked about a path and
\* answered no
C19_Witness ==
    /\ HFAnswered
    /\ HFCall.files = << <<>> >>
    /\ HFCall.result = <<FALSE>>

(***************************************************************************)
(* ErrorHandler._log, applied once to each drawn message.                  *)
(***************************************************************************)
LogCall == fcall[1]

LogAnswered == fcall # None /\ pc = "log" /\ LogCall.out # None

\* the texts handed to the logger, in order
Emitted == [i \in 1..Len(LogCall.out[1]) |-> LogCall.out[1][i].text]

\* the severity prefix of a handler, as the fragments put before the line
PrefixOf(h) ==
    CASE h = "error" -> <<"ERROR: ">>
      [] h = "warn"  -> <<"WARNING: ">>
      [] h = "debug" -> <<>>

IsPrefixFragment(x) == x \in {"ERROR: ", "WARNING: "}

CarriesPrefix(text) == \E j \in 1..Len(text) : IsPrefixFragment(text[j])

\* the characters of an emitted line that come from the message
Content(text) == SelectSeq(text, LAMBDA x : ~IsPrefixFragment(x))

\* the characters of the words of a line, in order
NonBlank(line) == SelectSeq(line, LAMBDA x : x # " ")

\* lines splits into consecutive groups, one per paragraph and in the order
\* of the paragraphs, and the words of each group are the words of its
\* paragraph in the same order
RECURSIVE WrappedByParagraph(_, _)
WrappedByParagraph(lines, paragraphs) ==
    IF paragraphs = <<>> THEN lines = <<>>
    ELSE \E n \in 0..Len(lines) :
            /\ NonBlank(Join(Take(lines, n))) = NonBlank(Head(paragraphs))
            /\ WrappedByParagraph(Drop(lines, n), Tail(paragraphs))

Wrapping == LogCall.termsize # None /\ LogCall.termsize[1] > 0

C20_VerbatimWithoutTerminal ==
    (LogAnswered /\ LogCall.termsize = None) =>
        LET rawlines == splitlines(LogCall.msg)
        IN  /\ Len(Emitted) = Len(rawlines)
            /\ \A i \in 1..Len(Emitted) :
                  Emitted[i] = IF i = 1
                               THEN PrefixOf(LogCall.handler) \o rawlines[i]
                               ELSE rawlines[i]

(***************************************************************************)
(* The records of one dispatch.                                            *)
(***************************************************************************)
\* the debug line naming a kind
Trailer(err) == [level |-> "debug", text |-> <<"    (", err, ")">>]

\* the warning naming a kind that is not registered
UnknownLine(err) == [level |-> "warning", text |-> <<"Unknown error ", err>>]

\* the characters of the words of a message, in order
Words(msg) == SelectSeq(msg, LAMBDA x : x # " " /\ x # "\n")

\* C14 as stated: a dispatch, whatever the severity it resolves to, the
\* fallback for an unregistered kind included, ends with the debug line
\* naming the kind.  (In a stand-alone handler the logger holds records
\* exactly after a dispatch.)
C14_DebugTrailerAlways ==
    (pc = "handler" /\ logged # <<>>) =>
        logged[Len(logged)] = Trailer(lastCall[1].err)

\* C14, amended: every dispatch of a registered kind, whatever the severity
\* it resolves to, logs the debug line "    (kind)" after all lines of the
\* message, as the last record of the call; a dispatch of a kind that is not
\* registered logs no debug line naming the kind: its last record, after all
\* lines of the message, is the warning "Unknown error kind".
C14_KindNamedAfterMessage ==
    [][ Calls' = Calls + 1 =>
          LET c == lastCall'[1]
              n == Len(logged')
              before == [i \in 1..(n - 1) |-> logged'[i]]
          IN  /\ n >= 1
              /\ logged'[n] = IF c.known THEN Trailer(c.err) ELSE UnknownLine(c.err)
              /\ \A i \in 1..(n - 1) :
                    /\ before[i] # Trailer(c.err)
                    /\ before[i] # UnknownLine(c.err)
                    /\ before[i].level =
                          IF ~c.known \/ errortypes[c.err] = "error" THEN "error"
                          ELSE IF errortypes[c.err] = "warn" THEN "warning"
                          ELSE "debug"
              /\ Words(Join([i \in 1..(n - 1) |-> Content(before[i].text)]))
                    = Words(c.msg)
      ]_vars

\* a registered kind was dispatched as an error with a message of several
\* lines: the error lines, then the debug line naming the kind
C14_Witness ==
    /\ pc = "handler"
    /\ lastCall # None
    /\ lastCall[1].known
    /\ Len(logged) >= 3
    /\ logged[1].level = "error"
    /\ logged[Len(logged)] = Trailer(lastCall[1].err)

\* C15: each dispatch changes at most one counter, and by exactly 1: resolved
\* to error it adds 1 to errors and leaves warnings unchanged; resolved to
\* warning it adds 1 to warnings and leaves errors unchanged; resolved to
\* silent it leaves both unchanged; for a kind that is not registered it adds
\* 1 to errors and leaves warnings unchanged, although it logs a warning.
C15_DispatchChangesAtMostOneCounter ==
    [][ Calls' = Calls + 1 =>
          LET c == lastCall'[1]
              h == IF c.known THEN errortypes[c.err] ELSE "unregistered"
          IN  /\ h = "error" => (errors' = errors + 1 /\ warnings' = warnings)
              /\ h = "warn"  => (warnings' = warnings + 1 /\ errors' = errors)
              /\ h = "debug" => (errors' = errors /\ warnings' = warnings)
              /\ h = "unregistered" =>
                    /\ errors' = errors + 1
                    /\ warnings' = warnings
                    /\ \E i \in 1..Len(logged') : logged'[i].level = "warning"
              /\ (errors' = errors \/ warnings' = warnings)
              /\ errors' - errors \in {0, 1}
              /\ warnings' - warnings \in {0, 1}
      ]_vars

\* a dispatch resolved to warning and a dispatch of a kind that is not
\* registered were made: one warning and one error are counted
C15_Witness ==
    /\ pc = "handler"
    /\ resolved["warn"] = 1
    /\ resolved["error"] = 0
    /\ unknown = 1
    /\ errors = 1
    /\ warnings = 1

\* C16: over the lifetime of the run's ErrorHandler the errors and warnings
\* counters start at 0 and never decrease: no step (plugin construction with
\* its RegisterErrors, dispatch, the return or fault of a Run, the end of
\* either phase, the server core's steps, the report step) decrements or
\* resets either counter.
C16_CountersStartAtZeroNeverDecrease ==
    /\ errors = 0
    /\ warnings = 0
    /\ [][errors' >= errors /\ warnings' >= warnings]_vars

\* a run of both phases returned with both counters above 0
C16_Witness ==
    /\ pc = "returned"
    /\ Events("return", "serverless") # {}
    /\ Events("return", "server") # {}
    /\ errors > 0
    /\ warnings > 0

\* C17: a fault of a plugin's Run is not a finding: once a Run has raised
\* the counters are exactly what the dispatches made produced, the
\* exit code is 2 only if a dispatch counted an error, and a fault of a
\* serverless plugin in a run without errors does not keep the server phase
\* from being run.
C17_FaultIsNotAFinding ==
    \A phase \in {"serverless", "server"} :
        \A i \in {j \in Events("fault", phase) : history[j - 1][1] = "run"} :
            /\ errors = resolved["error"] + unknown
            /\ warnings = resolved["warn"]
            /\ rv = <<2>> => errors > 0
            /\ ( /\ phase = "serverless"
                 /\ Finished
                 /\ errors = 0
                 /\ serverplugins # <<>> )
               => Events("init", "server") # {}

(***************************************************************************)
(* The order of the plugins of a run.                                      *)
(***************************************************************************)
PluginsOfPhase(phase) ==
    IF phase = "server" THEN serverplugins ELSE serverlessplugins

\* plugins holds, in the order of discovery, the discovered plugins that
\* are (server = TRUE) or are not (server = FALSE) server plugins
InDiscoveredOrder(plugins, server) ==
    LET discovered == setup.lint_plugins
        I == {k \in 1..Len(discovered) : discovered[k].server = server}
    IN  /\ Len(plugins) = Cardinality(I)
        /\ \A k \in I :
              plugins[Cardinality({m \in I : m <= k})] = discovered[k]

\* C18: plugins run one at a time and in phase order: each phase holds its
\* plugins in the order of discovery and constructs them in that order;
\* plugin i + 1 of a phase is constructed only after the Run of plugin i has
\* returned; a Run is called right after the construction of its plugin and
\* its return or fault is the next plugin event; and the server core is not
\* built, and no server plugin constructed or run, before the Run of every
\* serverless plugin has returned.
C18_SequentialInPhaseOrder ==
    /\ InDiscoveredOrder(serverlessplugins, FALSE)
    /\ InDiscoveredOrder(serverplugins, TRUE)
    /\ \A phase \in {"serverless", "server"} :
          /\ \A p \in Events("init", phase) :
                LET i == history[p][3] IN
                /\ i \in 1..Len(PluginsOfPhase(phase))
                /\ Cardinality({q \in Events("init", phase) : q < p}) = i - 1
                /\ i > 1 => \E q \in 1..(p - 1) : history[q] = <<"return", phase, i - 1>>
          /\ \A p \in Events("run", phase) :
                /\ p > 1
                /\ history[p - 1][1] = "init"
                /\ history[p - 1][2] = phase
                /\ history[p - 1][3] = history[p][3]
          /\ \A p \in Events("return", phase) :
                history[p - 1] = <<"run", phase, history[p][3]>>
          /\ \A p \in Events("fault", phase) :
                /\ history[p - 1][1] \in {"init", "run"}
                /\ history[p - 1][2] = phase
                /\ history[p - 1][3] = history[p][3]
    /\ \A p \in Events("core", "new") \cup Events("init", "server")
                \cup Events("run", "server") :
          \A j \in 1..Len(serverlessplugins) :
              \E q \in 1..(p - 1) : history[q] = <<"return", "serverless", j>>

\* a run of one serverless plugin and one server plugin returned: the
\* serverless plugin ran and returned, then the core was built, then the
\* server plugin was constructed, ran and returned
C18_Witness ==
    /\ pc = "returned"
    /\ Len(serverlessplugins) = 1
    /\ Len(serverplugins) = 1
    /\ history = << <<"init", "serverless", 1>>, <<"run", "serverless", 1>>,
                    <<"return", "serverless", 1>>,
                    <<"core", "new">>, <<"core", "ready">>,
                    <<"init", "server", 1, "ready">>, <<"run", "server", 1>>,
                    <<"return", "server", 1>>, <<"core", "shutdown">> >>

\* C21 as stated: a kind first declared with an action string that names
\* none of error, warning or silent (the empty string) is registered with the
\* error handler, so a dispatch of it has counted an error.
C21_UnnamedActionIsError ==
    (pc = "handler" /\ lastCall # None /\ lastCall[1].known
        /\ firstAction[lastCall[1].err] = ActEmpty) =>
        /\ errortypes[lastCall[1].err] = "error"
        /\ errors >= 1

\* C21, amended: a kind first declared with an action string that names none
\* of error, warning or silent (the empty string) is registered with the
\* debug handler, that is with severity silent, so a dispatch of it changes
\* neither counter.
C21_UnnamedActionIsSilent ==
    /\ [](\A k \in DOMAIN errortypes :
             firstAction[k] = ActEmpty => errortypes[k] = "debug")
    /\ [][ (Calls' = Calls + 1 /\ lastCall'[1].known
              /\ firstAction[lastCall'[1].err] = ActEmpty) =>
             /\ errors' = errors
             /\ warnings' = warnings
             /\ resolved'["debug"] = resolved["debug"] + 1
             /\ \A i \in 1..Len(logged') : logged'[i].level = "debug"
         ]_vars

\* a kind declared with the empty action was dispatched with a message and
\* nothing was counted
C21_Witness ==
    /\ pc = "handler"
    /\ lastCall # None
    /\ lastCall[1].known
    /\ firstAction[lastCall[1].err] = ActEmpty
    /\ lastCall[1].msg # <<>>
    /\ resolved["debug"] = 1
    /\ errors = 0
    /\ warnings = 0

(***************************************************************************)
(* The phases of CLI.run.                                                  *)
(***************************************************************************)
\* Discover 0, RunServerless 1, RunServer 2, Report 3, Exit 4
PhaseRank(p) ==
    CASE p = "start" -> 0
      [] p \in {"serverless", "serverless_run"} -> 1
      [] p \in {"core_new", "core_load", "core_block", "server", "server_run"} -> 2
      [] p = "report" -> 3
      [] p \in {"returned", "raised"} -> 4

\* a plugin's constructor or Run, or a step of the acquisition of the
\* server core, raised
Faulted ==
    \/ Events("fault", "serverless") # {}
    \/ Events("fault", "server") # {}
    \/ Events("core", "fault") # {}

EventsOf(kind, phase, i) == {p \in Events(kind, phase) : history[p][3] = i}

\* C23: every loaded plugin is in exactly one of the two lists, in
\* serverplugins if and only if it is a ServerPlugin; in one run each entry
\* of either list is constructed at most once and run at most once, and
\* nothing of a plugin happens after its fault; in a run that returned with
\* no fault and with errors = 0 after the serverless phase, each loaded
\* plugin was constructed once, run once and returned once.
C23_EachPluginOnePartitionOneRun ==
    /\ Len(serverlessplugins) + Len(serverplugins) = Len(setup.lint_plugins)
    /\ \A i \in 1..Len(serverplugins) : serverplugins[i].server
    /\ \A i \in 1..Len(serverlessplugins) : ~serverlessplugins[i].server
    /\ \A k \in 1..Len(setup.lint_plugins) :
          LET c == setup.lint_plugins[k]
              n(l) == Cardinality({i \in 1..Len(l) : l[i] = c})
          IN  n(serverplugins) + n(serverlessplugins)
                 = Cardinality({m \in 1..Len(setup.lint_plugins) :
                                   setup.lint_plugins[m] = c})
    /\ \A phase \in {"serverless", "server"} :
          \A i \in 1..Len(PluginsOfPhase(phase)) :
              /\ Cardinality(EventsOf("init", phase, i)) <= 1
              /\ Cardinality(EventsOf("run", phase, i)) <= 1
              /\ Cardinality(EventsOf("return", phase, i)
                             \cup EventsOf("fault", phase, i)) <= 1
              /\ \A f \in EventsOf("fault", phase, i) :
                    \A q \in (f + 1)..Len(history) : history[q][1] = "core"
              /\ ( /\ pc = "returned"
                   /\ ~setup.list_errors
                   /\ ~Faulted
                   /\ errorsAtDecision = <<0>> ) =>
                    /\ Cardinality(EventsOf("init", phase, i)) = 1
                    /\ Cardinality(EventsOf("run", phase, i)) = 1
                    /\ Cardinality(EventsOf("return", phase, i)) = 1

\* two server plugins were loaded and a run without faults returned: each
\* was constructed, run and returned once
C23_Witness ==
    /\ pc = "returned"
    /\ ~Faulted
    /\ Len(serverplugins) = 2
    /\ serverlessplugins = <<>>
    /\ \A i \in 1..2 : Cardinality(EventsOf("return", "server", i)) = 1
    /\ Cardinality(Events("init", "server")) = 2

\* the events of the server core
CoreEvents == {p \in 1..Len(history) : history[p][1] = "core"}

\* C24: the server core is built at most once in a run, and only when a
\* server plugin is loaded and errors was 0 when the serverless phase ended;
\* with no server plugin loaded, with errors above 0 after the serverless
\* phase, with no plugin at all, and with --list-errors, no core is ever
\* built and none is shut down.
C24_CoreOnlyForServerPhase ==
    /\ Cardinality(Events("core", "new")) <= 1
    /\ Events("core", "new") # {} =>
          /\ serverplugins # <<>>
          /\ errorsAtDecision = <<0>>
          /\ ~setup.list_errors
    /\ ( \/ serverplugins = <<>>
         \/ NoPlugins
         \/ setup.list_errors
         \/ (errorsAtDecision # None /\ errorsAtDecision[1] > 0) ) =>
          /\ core = "none"
          /\ CoreEvents = {}
    /\ core = "none" <=> Events("core", "new") = {}

\* a run with a server plugin loaded whose serverless phase counted an
\* error returned: no core was built
C24_Witness ==
    /\ pc = "returned"
    /\ serverplugins # <<>>
    /\ errorsAtDecision # None
    /\ errorsAtDecision[1] > 0
    /\ core = "none"
    /\ CoreEvents = {}
    /\ rv = <<2>>

\* C25: every server core that run_server_plugins built is shut down by the
\* time run_server_plugins has ended, by returning or by raising, a raise of
\* core.load_plugins or core.block_for_fam_events included.
C25_ConstructedCoreIsShutDown ==
    (pc \in {"report", "returned", "raised"} /\ Events("core", "new") # {}) =>
        /\ core = "shutdown"
        /\ Cardinality(Events("core", "shutdown")) = 1

\* the handler of each of the drawn action strings
HandlerOfAction(action) ==
    CASE action = ActError   -> "error"
      [] action = ActWarning -> "warn"
      [] action = ActSilent  -> "debug"
      [] action = ActEmpty   -> "debug"

\* C26: a dispatch never changes the registry; a dispatch of a kind that is
\* not registered counts an error and ends with the unknown-kind warning,
\* and leaves the kind unregistered, so that the same holds of every later
\* dispatch of it until a RegisterErrors call names it; and a RegisterErrors
\* call that names a kind that is not registered registers it with the
\* handler of its own action, as its first registration.
C26_DispatchLeavesRegistryAlone ==
    /\ [][ Calls' = Calls + 1 =>
             /\ errortypes' = errortypes
             /\ firstAction' = firstAction
             /\ lastCall'[1].err \notin DOMAIN errortypes =>
                   /\ lastCall'[1].err \notin DOMAIN errortypes'
                   /\ errors' = errors + 1
                   /\ warnings' = warnings
                   /\ logged'[Len(logged')] = UnknownLine(lastCall'[1].err)
         ]_vars
    /\ [][ Calls' = Calls =>
             \A k \in DOMAIN errortypes' \ DOMAIN errortypes :
                 /\ k \in DOMAIN firstAction' \ DOMAIN firstAction
                 /\ errortypes'[k] = HandlerOfAction(firstAction'[k])
         ]_vars

\* two dispatches were made of kinds that are not registered: two errors
\* are counted and the registry is still empty
C26_Witness ==
    /\ pc = "handler"
    /\ unknown = 2
    /\ errors = 2
    /\ warnings = 0
    /\ DOMAIN errortypes = {}
    /\ ~lastCall[1].known
    /\ logged[Len(logged)] = UnknownLine(lastCall[1].err)

(***************************************************************************)
(* tools/upgrade/1.3/migrate_info.py.  The repository is the sequence of   *)
(* the directories in the order os.walk yields them, each under the        *)
(* directory of one plugin; a directory maps the names ":info", "info" and *)
(* "info.xml" to None or <<content>>.  The content of an info file is the  *)
(* sequence of <<key, value>> pairs parse_info reads from it; the content  *)
(* of info.xml is the attributes of its Info element.  main walks the      *)
(* repository MaxRuns times, one run of the script after the other.        *)
(***************************************************************************)
\* the longest repository drawn, and the number of runs of the script
MaxDirs == 2
MaxRuns == 2

InfoNames == {":info", "info"}
XmlName == "info.xml"

\* the plugins whose directories main walks, and one it does not
MigratedPlugins == {"SSLCA", "Cfg", "TGenshi", "TCheetah", "SSHbase"}
RepoPlugins == {"Cfg", "Rules"}

\* what parse_info yields for the drawn ":info" and "info" files
ColonInfo == << <<"owner", "root">>, <<"mode", "">> >>
PlainInfo == << <<"owner", "">>, <<"mode", "0644">> >>

\* the attributes of an info.xml that was there before the migration
OldXml == [k \in {"owner"} |-> "bin"]

\* for key, value in pairs: if value: info.set(key, value)
RECURSIVE SetAttrs(_, _)
SetAttrs(pairs, attrs) ==
    IF pairs = <<>> THEN attrs
    ELSE LET key == Head(pairs)[1]
             value == Head(pairs)[2]
         IN  SetAttrs(Tail(pairs),
                      IF value # ""
                      THEN [k \in DOMAIN attrs \cup {key} |->
                               IF k = key THEN value ELSE attrs[k]]
                      ELSE attrs)

\* the Info element written for an info file
XmlOf(pairs) == SetAttrs(pairs, [k \in {} |-> ""])

\* convert without the os.path.exists test
convertOverwrites(files, name) ==
    [files EXCEPT ![XmlName] = <<XmlOf(files[name][1])>>, ![name] = None]

\* convert(info_file), on the files of the directory of info_file
convert(files, name) ==
    IF files[XmlName] # None THEN files
    ELSE [files EXCEPT ![XmlName] = <<XmlOf(files[name][1])>>, ![name] = None]

\* what convert prints
convertPrints(files, name) ==
    IF files[XmlName] # None THEN "already exists, not converting" ELSE "Converting"

DirFiles ==
    { f \in [InfoNames \cup {XmlName} -> {None, <<ColonInfo>>, <<PlainInfo>>, <<OldXml>>}] :
        /\ f[":info"] \in {None, <<ColonInfo>>}
        /\ f["info"] \in {None, <<PlainInfo>>}
        /\ f[XmlName] \in {None, <<OldXml>>} }

Dirs == [plugin : RepoPlugins, files : DirFiles]

Repos == UNION {[1..n -> Dirs] : n \in 1..MaxDirs}

\* the orders in which os.walk can list the info files of a directory
Listings2(files) ==
    LET present == {n \in InfoNames : files[n] # None}
    IN  {l \in UNION {[1..k -> present] : k \in 0..2} :
            /\ Len(l) = Cardinality(present)
            /\ \A i, j \in 1..Len(l) : i # j => l[i] # l[j]}

Mig == repo[1]

InitMig ==
    /\ Idle
    /\ fcall = None
    /\ pc = "migrate"
    /\ \E dirs \in Repos :
          repo = <<[dirs |-> dirs, run |-> 1, d |-> 1, todo |-> None,
                    printed |-> None, start |-> dirs, first |-> None]>>

\* for plugin in setup['plugins']: a plugin that is not in the list: continue
MigSkipPlugin ==
    /\ pc = "migrate"
    /\ Mig.run <= MaxRuns
    /\ Mig.d <= Len(Mig.dirs)
    /\ Mig.todo = None
    /\ Mig.dirs[Mig.d].plugin \notin MigratedPlugins
    /\ repo' = <<[Mig EXCEPT !.d = @ + 1, !.printed = None]>>
    /\ UNCHANGED <<ehvars, clivars, ghostvars, fcall>>

\* os.walk yields the next directory with the list of its files
MigListDir ==
    /\ pc = "migrate"
    /\ Mig.run <= MaxRuns
    /\ Mig.d <= Len(Mig.dirs)
    /\ Mig.todo = None
    /\ Mig.dirs[Mig.d].plugin \in MigratedPlugins
    /\ \E l \in Listings2(Mig.dirs[Mig.d].files) :
          repo' = <<[Mig EXCEPT !.todo = <<l>>, !.printed = None]>>
    /\ UNCHANGED <<ehvars, clivars, ghostvars, fcall>>

\* for fname in files: if fname in [":info", "info"]: convert(...)
MigConvert ==
    /\ pc = "migrate"
    /\ Mig.todo # None
    /\ Mig.todo[1] # <<>>
    /\ LET name == Head(Mig.todo[1])
           files == Mig.dirs[Mig.d].files
       IN  repo' = <<[Mig EXCEPT !.dirs[Mig.d].files = convert(files, name),
                                 !.todo = <<Tail(Mig.todo[1])>>,
                                 !.printed = <<convertPrints(files, name), Mig.d, name>>]>>
    /\ UNCHANGED <<ehvars, clivars, ghostvars, fcall>>

\* the files of the directory are done
MigNextDir ==
    /\ pc = "migrate"
    /\ Mig.todo = << <<>> >>
    /\ repo' = <<[Mig EXCEPT !.d = @ + 1, !.todo = None, !.printed = None]>>
    /\ UNCHANGED <<ehvars, clivars, ghostvars, fcall>>

\* main returns; the script is run again
MigEndRun ==
    /\ pc = "migrate"
    /\ Mig.run <= MaxRuns
    /\ Mig.d > Len(Mig.dirs)
    /\ repo' = <<[Mig EXCEPT !.run = @ + 1, !.d = 1, !.printed = None,
                             !.first = IF Mig.run = 1 THEN <<Mig.dirs>> ELSE @]>>
    /\ UNCHANGED <<ehvars, clivars, ghostvars, fcall>>

NextMig ==
    \/ MigSkipPlugin
    \/ MigListDir
    \/ MigConvert
    \/ MigNextDir
    \/ MigEndRun

SpecMig == InitMig /\ [][NextMig]_vars

(***************************************************************************)
(* migrate_info.                                                           *)
(***************************************************************************)
\* the attributes the Info element of a converted ":info" or "info" holds
ConvertedFrom(name) ==
    IF name = ":info" THEN [k \in {"owner"} |-> "root"]
    ELSE [k \in {"mode"} |-> "0644"]

\* C27: convert never overwrites an existing info.xml: called for an info
\* file of a directory that holds info.xml it changes nothing; otherwise it
\* creates info.xml from the info file and removes the info file, leaving
\* every other file as it was.  So a directory that held info.xml when the
\* migration started is never changed; after the first run a walked
\* directory that held both ":info" and "info" and no info.xml holds
\* info.xml converted from one of them and still holds the other; and a
\* second run of the migration changes nothing.
C27_ConvertNeverOverwrites ==
    /\ [][ (repo # None /\ repo'[1].printed # None) =>
             LET d == Mig.d
                 name == Head(Mig.todo[1])
                 before == Mig.dirs[d].files
                 after == repo'[1].dirs[d].files
             IN  /\ \A e \in 1..Len(Mig.dirs) : e # d => repo'[1].dirs[e] = Mig.dirs[e]
                 /\ repo'[1].dirs[d].plugin = Mig.dirs[d].plugin
                 /\ before[XmlName] # None => after = before
                 /\ before[XmlName] = None =>
                       /\ after[XmlName] = <<ConvertedFrom(name)>>
                       /\ after[name] = None
                       /\ \A n \in InfoNames \ {name} : after[n] = before[n]
         ]_vars
    /\ [](\A d \in 1..Len(Mig.dirs) :
             Mig.start[d].files[XmlName] # None => Mig.dirs[d] = Mig.start[d])
    /\ [](Mig.first # None =>
             \A d \in 1..Len(Mig.dirs) :
                 ( /\ Mig.start[d].plugin \in MigratedPlugins
                   /\ Mig.start[d].files[":info"] # None
                   /\ Mig.start[d].files["info"] # None
                   /\ Mig.start[d].files[XmlName] = None ) =>
                     \E n \in InfoNames :
                         /\ Mig.first[1][d].files[n] = None
                         /\ Mig.first[1][d].files[XmlName] = <<ConvertedFrom(n)>>
                         /\ \A o \in InfoNames \ {n} :
                               Mig.first[1][d].files[o] = Mig.start[d].files[o])
    /\ [](Mig.run >= 2 => Mig.dirs = Mig.first[1])

\* the migration was run twice over a Cfg directory that held ":info" and
\* "info" and no info.xml: info.xml was converted from "info", which was
\* visited first, and ":info" is still there
C27_Witness ==
    /\ repo # None
    /\ Mig.run > 2
    /\ Mig.start[1].plugin = "Cfg"
    /\ Mig.start[1].files[":info"] # None
    /\ Mig.start[1].files["info"] # None
    /\ Mig.start[1].files[XmlName] = None
    /\ Mig.dirs[1].files[":info"] = <<ColonInfo>>
    /\ Mig.dirs[1].files["info"] = None
    /\ Mig.dirs[1].files[XmlName] = <<ConvertedFrom("info")>>

====
